---- MODULE Spec2Model ----
(***************************************************************************)
(* Model of the stall-detection / auto-recovery engine of subcodex         *)
(* (src/src/index.ts): one invocation of the "run" or "reply" tool         *)
(* handler, its passes through processEventsWithStallDetection, the        *)
(* recovery loop of runWithStallRecovery and the report it returns.        *)
(*                                                                         *)
(* Strings the code inspects (error messages) are tuples of characters so  *)
(* that String.prototype.includes is a real substring search.  An optional *)
(* value is Null / Undefined; an optional number is <<>> or <<n>>.         *)
(***************************************************************************)
EXTENDS Integers, Sequences, FiniteSets, TLC

\* ------------------------------------------------------------------------
\* Bounds of the model
\* ------------------------------------------------------------------------
\* ticks of the inactivity timeout (stallTimeoutMs in abstract time units)
StallTimeout == 2
\* events delivered to the consumer during one invocation, all passes together
MaxEvents == 3

\* ------------------------------------------------------------------------
\* Program constants and literals
\* ------------------------------------------------------------------------
DEFAULT_MAX_RECOVERY_ATTEMPTS == 2

Null == "null"
Undefined == <<"undefined">>

STR_timeout == <<"t", "i", "m", "e", "o", "u", "t">>
STR_aborted == <<"a", "b", "o", "r", "t", "e", "d">>
STR_StillStalled == <<"S", "t", "i", "l", "l", " ", "s", "t", "a", "l", "l", "e", "d", " ", "a", "f", "t", "e", "r", " ", "r", "e", "c", "o", "v", "e", "r", "y", " ", "a", "t", "t", "e", "m", "p", "t">>
STR_ExecPrefix == <<"C", "o", "d", "e", "x", " ", "E", "x", "e", "c", " ", "e", "x", "i", "t", "e", "d", " ", "w", "i", "t", "h", " ", "c", "o", "d", "e", " ", "1", ":", " ">>

\* messages an error raised by the SDK may carry
MSG_RequestTimeout == <<"r", "e", "q", "u", "e", "s", "t", " ", "t", "i", "m", "e", "o", "u", "t">>
MSG_Boom == <<"b", "o", "o", "m">>
MSG_Aborted == <<"T", "h", "e", " ", "o", "p", "e", "r", "a", "t", "i", "o", "n", " ", "w", "a", "s", " ", "a", "b", "o", "r", "t", "e", "d">>
MSG_CapTimeout == <<"T", "i", "m", "e", "o", "u", "t">>
MSG_Abort == <<"a", "b", "o", "r", "t">>
MSG_Empty == <<>>

\* messages raised by the event source or by start/resume in a run
RaisedMessages == {MSG_RequestTimeout, MSG_Boom, MSG_Empty}

\* ------------------------------------------------------------------------
\* Items and events (ThreadItem / ThreadEvent of the SDK)
\* ------------------------------------------------------------------------
\* a file_change item carries its changes, each with a kind and a path
Item(type, status, text) ==
    [type |-> type, status |-> status, text |-> text, changes |-> <<>>]

ChangeA == [kind |-> "update", path |-> "a.ts"]

ItemMessage == Item("agent_message", "-", "done")
ItemMessage2 == Item("agent_message", "-", "again")
ItemError == Item("error", "-", "")
ItemCommand == Item("command_execution", "completed", "")
ItemFileFailed == [Item("file_change", "failed", "") EXCEPT !.changes = <<ChangeA>>]
ItemFileOk == [Item("file_change", "completed", "") EXCEPT !.changes = <<ChangeA>>]

\* items the streams of a run deliver
StreamItems == {ItemMessage, ItemError, ItemCommand}
\* items the Outcome Evaluator is exercised on
EvalItems == {ItemMessage, ItemMessage2, ItemError, ItemCommand, ItemFileFailed, ItemFileOk}

ThreadIds == {"T1", "T2"}
UsageU1 == <<10, 5>>

Event(type, thread_id, item, usage) ==
    [type |-> type, thread_id |-> thread_id, item |-> item, usage |-> usage]

NoItem == Item("-", "-", "")

ThreadEvents ==
    {Event("thread.started", t, NoItem, <<>>) : t \in ThreadIds}
    \cup {Event(k, Null, NoItem, <<>>) : k \in {"turn.started", "turn.failed", "error"}}
    \cup {Event(k, Null, ItemCommand, <<>>) : k \in {"item.started", "item.updated"}}
    \cup {Event("item.completed", Null, i, <<>>) : i \in StreamItems}
    \cup {Event("turn.completed", Null, NoItem, UsageU1)}

\* what an abandoned source delivers once its pass has given up on it
LateEvents == {Event("item.completed", Null, ItemMessage, <<>>)}

\* ------------------------------------------------------------------------
\* Pure helpers
\* ------------------------------------------------------------------------
\* String.prototype.includes: needle occurs as a contiguous run of hay
Includes(hay, needle) ==
    \E i \in 0..(Len(hay) - Len(needle)) :
        \A j \in 1..Len(needle) : hay[i + j] = needle[j]

RECURSIVE CountType(_, _)
CountType(s, type) ==
    IF s = <<>> THEN 0
    ELSE (IF s[1].type = type THEN 1 ELSE 0) + CountType(Tail(s), type)

\* `${c.kind}: ${c.path}` (line 520)
FormatChange(c) == <<c.kind, ": ", c.path>>

\* fileItems.flatMap(...) (lines 519-521)
RECURSIVE FilesModified(_)
FilesModified(s) ==
    IF s = <<>> THEN <<>>
    ELSE (IF s[1].type = "file_change"
          THEN [k \in 1..Len(s[1].changes) |-> FormatChange(s[1].changes[k])]
          ELSE <<>>) \o FilesModified(Tail(s))

\* mutant: failures are looked for before the final message
determineResultLevel_FailFirst(items, hasError, errorMessage) ==
    IF hasError
    THEN IF errorMessage # Undefined
            /\ (Includes(errorMessage, STR_timeout) \/ Includes(errorMessage, STR_aborted))
         THEN "TIMEOUT"
         ELSE "ERROR"
    ELSE IF (\E i \in 1..Len(items) : items[i].type = "error")
            \/ (\E i \in 1..Len(items) : items[i].type = "file_change" /\ items[i].status = "failed")
         THEN "FAIL"
         ELSE "PASS"
\* determineResultLevel (lines 53-84)
determineResultLevel(items, hasError, errorMessage) ==
    IF hasError
    THEN IF errorMessage # Undefined
            /\ (Includes(errorMessage, STR_timeout) \/ Includes(errorMessage, STR_aborted))
         THEN "TIMEOUT"
         ELSE "ERROR"
    ELSE IF (\E i \in 1..Len(items) : items[i].type = "agent_message")
         THEN "PASS"
         ELSE IF (\E i \in 1..Len(items) : items[i].type = "error")
                 \/ (\E i \in 1..Len(items) : items[i].type = "file_change" /\ items[i].status = "failed")
              THEN "FAIL"
              ELSE "PASS"

\* ------------------------------------------------------------------------
\* State
\* ------------------------------------------------------------------------
VARIABLES
    pc,             \* position of the handler: "start", "consuming", "resuming", "done"
    tool,           \* "run" or "reply"
    callerThreadId, \* threadId argument of "reply"; Null for "run"
    maxAttempts,    \* maxRecoveryAttempts ?? DEFAULT_MAX_RECOVERY_ATTEMPTS
    cur,            \* locals of the running processEventsWithStallDetection
    timer,          \* ticks since the armed inactivity timer was set
    armed,          \* number of timers set by setTimeout and neither cleared nor fired
    sinceEvent,     \* ticks since the pass last obtained an event (or began)
    attempt,        \* loop variable of runWithStallRecovery; 0 in the first pass
    inFlight,       \* passes started and not yet resolved (0 = first pass)
    threadId,       \* const threadId of runWithStallRecovery
    result,         \* let result of runWithStallRecovery: <<>> until assigned
    recovery,       \* RecoveryInfo
    report,         \* what the handler returns
    resumeCalls,    \* number of codex.resumeThread(...).runStreamed calls of the loop
    abandoned,      \* sources whose pass returned stalled, their next() left pending
    lateEvents,     \* events the latest abandoned source delivered to its pending next()
    nEvents,        \* events obtained so far
    passTicks,      \* ticks since the pass began (capped)
    outcome,        \* settlement of the latest processEventsWithStallDetection call
    sourceRaised,   \* <<m>> once the source of the latest pass raised m from next()
    firstResult,    \* <<r>> once the first pass returned r
    allItems,       \* items of every item.completed event obtained, in order
    passStart,      \* Len(allItems) when the latest pass was entered
    recoveryResult, \* <<rr>> once attemptRecovery returned rr; the latest one
    evItems, evHasError, evMessage, evLevel,  \* one call of determineResultLevel
    evEvents        \* the events of a stream consumed as a whole

vars == <<pc, tool, callerThreadId, maxAttempts, cur, timer, armed, sinceEvent,
          attempt, inFlight, threadId, result, recovery, report, resumeCalls,
          abandoned, lateEvents, nEvents, passTicks, outcome, sourceRaised,
          firstResult, allItems, passStart, recoveryResult,
          evItems, evHasError, evMessage, evLevel, evEvents>>

evalVars == <<evItems, evHasError, evMessage, evLevel, evEvents>>

\* ------------------------------------------------------------------------
\* processEventsWithStallDetection
\* ------------------------------------------------------------------------
\* settlement of the promise a call returns
Pending == [kind |-> "pending"]
Fulfilled(r) == [kind |-> "fulfilled", value |-> r]
Rejected(m) == [kind |-> "rejected", reason |-> m]

\* locals at entry (lines 138-142)
PassInit ==
    [items |-> <<>>, threadId |-> Null, finalResponse |-> "", usage |-> <<>>,
     stalled |-> FALSE, error |-> Undefined]

\* mutant: a turn.failed or error event is recorded as an error item
ProcessEvent_FailureIsItem(c, e) ==
    CASE e.type = "thread.started" -> [c EXCEPT !.threadId = e.thread_id]
      [] e.type = "item.completed" ->
            [c EXCEPT !.items = Append(@, e.item),
                      !.finalResponse = IF e.item.type = "agent_message"
                                        THEN e.item.text ELSE @]
      [] e.type = "turn.completed" -> [c EXCEPT !.usage = e.usage]
      [] e.type \in {"turn.failed", "error"} ->
            [c EXCEPT !.items = Append(@, Item("error", "-", ""))]
      [] OTHER -> c
\* mutant: an item.updated event appends its item as well
ProcessEvent_AppendsOnUpdate(c, e) ==
    CASE e.type = "thread.started" -> [c EXCEPT !.threadId = e.thread_id]
      [] e.type \in {"item.completed", "item.updated"} ->
            [c EXCEPT !.items = Append(@, e.item),
                      !.finalResponse = IF e.item.type = "agent_message"
                                        THEN e.item.text ELSE @]
      [] e.type = "turn.completed" -> [c EXCEPT !.usage = e.usage]
      [] OTHER -> c
\* the switch on event.type (lines 178-219)
ProcessEvent(c, e) ==
    CASE e.type = "thread.started" -> [c EXCEPT !.threadId = e.thread_id]
      [] e.type = "item.completed" ->
            [c EXCEPT !.items = Append(@, e.item),
                      !.finalResponse = IF e.item.type = "agent_message"
                                        THEN e.item.text ELSE @]
      [] e.type = "turn.completed" -> [c EXCEPT !.usage = e.usage]
      [] OTHER -> c

\* setTimeout at the top of the loop body (lines 149-153)
SetTimeout(n) == n + 1
\* clearTimeout after the race (line 161)
ClearTimeout(n) == n - 1

\* mutant: one timer for the whole pass, not set anew for each race
NewTimer_NotReset(t) == t
\* a timer set by setTimeout counts from zero (lines 150-152)
NewTimer(t) == 0

\* mutant: the loop goes on consuming after the timeout has won
OnLateEvent_Consumed(c, e) == ProcessEvent(c, e)
\* the race is settled by its first promise: a next() that resolves after the
\* timeout has won is mapped by .then and dropped (lines 156-159)
OnLateEvent(c, e) == c

\* ------------------------------------------------------------------------
\* run / reply handler: the report
\* ------------------------------------------------------------------------
NoReport == [kind |-> "none"]

\* mutant: || in place of &&
hasUnrecoveredStall_Or(res, rec) == res.stalled \/ ~rec.recovered
\* hasUnrecoveredStall (lines 487 and 596)
hasUnrecoveredStall(res, rec) == res.stalled /\ ~rec.recovered

\* mutant: the level is left to the Outcome Evaluator alone
ResultLevelOf_NoOverride(res, rec) == determineResultLevel(res.items, FALSE, Undefined)
\* resultLevel (lines 487-490 and 596-599)
ResultLevelOf(res, rec) ==
    IF hasUnrecoveredStall(res, rec) THEN "TIMEOUT"
    ELSE determineResultLevel(res.items, FALSE, Undefined)

\* mutant: the summary is built without needsUserInput
Summary_NoNeedsUserInput(res, rec) ==
    [kind |-> "summary",
     threadId |-> IF tool = "run" THEN res.threadId ELSE callerThreadId,
     content |-> res.finalResponse,
     totalItems |-> Len(res.items),
     commands |-> CountType(res.items, "command_execution"),
     fileChanges |-> CountType(res.items, "file_change"),
     mcpCalls |-> CountType(res.items, "mcp_tool_call"),
     usage |-> res.usage,
     filesModified |-> FilesModified(res.items),
     recovery |-> IF rec.attempted THEN <<rec>> ELSE <<>>,
     resultLevel |-> ResultLevelOf(res, rec)]
\* summary object (lines 504-524 and 612-629); resultLevel is the label the
\* progress log is renamed with (line 499)
Summary(res, rec) ==
    [kind |-> "summary",
     threadId |-> IF tool = "run" THEN res.threadId ELSE callerThreadId,
     content |-> res.finalResponse,
     totalItems |-> Len(res.items),
     commands |-> CountType(res.items, "command_execution"),
     fileChanges |-> CountType(res.items, "file_change"),
     mcpCalls |-> CountType(res.items, "mcp_tool_call"),
     usage |-> res.usage,
     filesModified |-> FilesModified(res.items),
     recovery |-> IF rec.attempted THEN <<rec>> ELSE <<>>,
     needsUserInput |-> hasUnrecoveredStall(res, rec),
     resultLevel |-> ResultLevelOf(res, rec)]

\* mutant: every caught error is labelled ERROR
ErrorReport_AlwaysError(errorMessage) ==
    [kind |-> "error",
     error |-> STR_ExecPrefix \o errorMessage,
     resultLevel |-> "ERROR"]
\* catch block of the handler (lines 534-551 and 639-656)
ErrorReport(errorMessage) ==
    [kind |-> "error",
     error |-> STR_ExecPrefix \o errorMessage,
     resultLevel |-> determineResultLevel(<<>>, TRUE, errorMessage)]

\* ------------------------------------------------------------------------
\* runWithStallRecovery
\* ------------------------------------------------------------------------
RecoveryInit == [attempted |-> FALSE, attempts |-> 0, recovered |-> FALSE,
                 lastError |-> Undefined]

\* mutant: the run handler hands out an identifier although none was captured
getThreadId_Captured == IF tool = "run" THEN "T1" ELSE callerThreadId
\* () => capturedThreadId (line 476, null while the run is in progress) and
\* () => threadId (line 586)
getThreadId == IF tool = "run" THEN Null ELSE callerThreadId

\* result.threadId || getThreadId()  (line 295)
ThreadIdOf(res) == IF res.threadId # Null THEN res.threadId ELSE getThreadId

\* mutant: recovery is entered whether or not the first pass stalled
ShouldRecover_IgnoresStall(res, tid) == tid # Null
\* if (result.stalled && threadId)  (line 296)
ShouldRecover(res, tid) == res.stalled /\ tid # Null

\* mutant: one attempt too many
LoopCondition_OffByOne(k) == k <= maxAttempts + 1
\* attempt <= maxRecoveryAttempts  (line 299)
LoopCondition(k) == k <= maxAttempts

\* mutant: the recovery items are put before the pre-stall items
Merge_Reversed(res, rr, tid) ==
    [rr EXCEPT !.items = rr.items \o res.items, !.threadId = tid]
\* merge on success (lines 307-311)
Merge(res, rr, tid) ==
    [rr EXCEPT !.items = res.items \o rr.items, !.threadId = tid]

\* mutant: every failed attempt is recorded as still stalled
LastErrorOf_Generic(rr) == STR_StillStalled
\* recoveryResult.error || "Still stalled after recovery attempt"  (line 315)
LastErrorOf(rr) ==
    IF rr.error # Undefined /\ rr.error # <<>> THEN rr.error ELSE STR_StillStalled

\* result of the catch block of attemptRecovery (lines 257-268)
CaughtResult(tid, errorMessage) ==
    [items |-> <<>>, threadId |-> tid, finalResponse |-> "", usage |-> <<>>,
     stalled |-> TRUE, error |-> errorMessage]

\* the handler returns the summary (lines 481-533)
Finish(res, rec) ==
    /\ result' = <<res>>
    /\ recovery' = rec
    /\ report' = Summary(res, rec)
    /\ pc' = "done"
    /\ inFlight' = inFlight \ {attempt}
    /\ UNCHANGED <<attempt, resumeCalls>>

\* head of the for loop with attempt = k (lines 299-302): the awaited pass has
\* resolved; either the next attempt is started, up to the await of runStreamed
\* in attemptRecovery, or the loop is left (lines 318-323)
LoopHead(res, rec, k) ==
    IF LoopCondition(k)
    THEN /\ recovery' = [rec EXCEPT !.attempts = k]
         /\ attempt' = k
         /\ result' = <<res>>
         /\ resumeCalls' = resumeCalls + 1
         /\ inFlight' = (inFlight \ {attempt}) \cup {k}
         /\ pc' = "resuming"
         /\ UNCHANGED report
    ELSE Finish(res, rec)

\* the first pass returned res (lines 286-297)
AfterFirstPass(res) ==
    /\ firstResult' = <<res>>
    /\ threadId' = ThreadIdOf(res)
    /\ UNCHANGED recoveryResult
    /\ IF ShouldRecover(res, ThreadIdOf(res))
       THEN LoopHead(res, [RecoveryInit EXCEPT !.attempted = TRUE], 1)
       ELSE Finish(res, RecoveryInit)

\* mutant: a failed attempt leaves its final text and usage in the result
AttemptFailed_TakesText(rr) ==
    /\ LoopHead([result[1] EXCEPT !.finalResponse = rr.finalResponse,
                                  !.usage = rr.usage],
                [recovery EXCEPT !.lastError = LastErrorOf(rr)], attempt + 1)
    /\ recoveryResult' = <<rr>>
    /\ UNCHANGED <<threadId, firstResult>>
\* mutant: a failed attempt is retried without counting it
AttemptFailed_NotCounted(rr) ==
    /\ LoopHead(result[1], [recovery EXCEPT !.lastError = LastErrorOf(rr)], attempt)
    /\ recoveryResult' = <<rr>>
    /\ UNCHANGED <<threadId, firstResult>>
\* mutant: the items of a failed attempt are merged as well
AttemptFailed_KeepsItems(rr) ==
    /\ LoopHead([result[1] EXCEPT !.items = @ \o rr.items],
                [recovery EXCEPT !.lastError = LastErrorOf(rr)], attempt + 1)
    /\ recoveryResult' = <<rr>>
    /\ UNCHANGED <<threadId, firstResult>>
\* attemptRecovery returned rr with recoverySuccess = false (line 315)
AttemptFailed(rr) ==
    /\ LoopHead(result[1], [recovery EXCEPT !.lastError = LastErrorOf(rr)], attempt + 1)
    /\ recoveryResult' = <<rr>>
    /\ UNCHANGED <<threadId, firstResult>>

\* mutant: no break after a successful attempt
AttemptSucceeded_NoBreak(rr) ==
    /\ LoopHead(Merge(result[1], rr, threadId), [recovery EXCEPT !.recovered = TRUE],
                attempt + 1)
    /\ recoveryResult' = <<rr>>
    /\ UNCHANGED <<threadId, firstResult>>
\* attemptRecovery returned rr with recoverySuccess = true (lines 304-313)
AttemptSucceeded(rr) ==
    /\ Finish(Merge(result[1], rr, threadId), [recovery EXCEPT !.recovered = TRUE])
    /\ recoveryResult' = <<rr>>
    /\ UNCHANGED <<threadId, firstResult>>

\* a pass returned r (line 222): to runWithStallRecovery (line 286) or to
\* attemptRecovery (lines 248-256)
PassReturns(r) ==
    IF attempt = 0 THEN AfterFirstPass(r)
    ELSE IF r.stalled THEN AttemptFailed(r) ELSE AttemptSucceeded(r)

\* mutant: attemptRecovery does not catch, the error reaches the handler
Raised_Escalates(errorMessage) ==
    /\ report' = ErrorReport(errorMessage)
    /\ pc' = "done"
    /\ inFlight' = inFlight \ {attempt}
    /\ UNCHANGED <<attempt, threadId, result, recovery, resumeCalls, firstResult,
                   recoveryResult>>
\* mutant: the error is captured into the Run Result the pass returns
Raised_Captured(errorMessage) == PassReturns([cur EXCEPT !.error = errorMessage])
\* an error is raised out of a pass or out of start/resume: the catch of the
\* handler (lines 534-551) or of attemptRecovery (lines 257-268)
Raised(errorMessage) ==
    IF attempt = 0
    THEN /\ report' = ErrorReport(errorMessage)
         /\ pc' = "done"
         /\ inFlight' = inFlight \ {attempt}
         /\ UNCHANGED <<attempt, threadId, result, recovery, resumeCalls, firstResult,
                        recoveryResult>>
    ELSE AttemptFailed(CaughtResult(threadId, errorMessage))

\* ------------------------------------------------------------------------
\* Initial state: a tool call with its arguments
\* ------------------------------------------------------------------------
\* the maxRecoveryAttempts argument: absent, 0 or 1
ArgMaxRecovery == {<<>>, <<0>>, <<1>>}

InitEval ==
    /\ evItems = <<>>
    /\ evHasError = FALSE
    /\ evMessage = Undefined
    /\ evLevel = "-"
    /\ evEvents = <<>>

\* a call of tool t with maxRecoveryAttempts argument a
InitCall(t, a) ==
    /\ pc = "start"
    /\ tool = t
    /\ callerThreadId = IF t = "run" THEN Null ELSE "T1"
    /\ maxAttempts = IF a = <<>> THEN DEFAULT_MAX_RECOVERY_ATTEMPTS ELSE a[1]
    /\ cur = PassInit
    /\ timer = 0
    /\ armed = 0
    /\ sinceEvent = 0
    /\ attempt = 0
    /\ inFlight = {}
    /\ threadId = Null
    /\ result = <<>>
    /\ recovery = RecoveryInit
    /\ report = NoReport
    /\ resumeCalls = 0
    /\ abandoned = 0
    /\ lateEvents = 0
    /\ nEvents = 0
    /\ passTicks = 0
    /\ outcome = Pending
    /\ sourceRaised = <<>>
    /\ firstResult = <<>>
    /\ allItems = <<>>
    /\ passStart = 0
    /\ recoveryResult = <<>>

Init ==
    /\ \E t \in {"run", "reply"}, a \in ArgMaxRecovery : InitCall(t, a)
    /\ InitEval

\* ------------------------------------------------------------------------
\* Actions
\* ------------------------------------------------------------------------
\* a pass is entered: locals, first setTimeout, first race (lines 138-159)
EnterPass ==
    /\ cur' = PassInit
    /\ timer' = NewTimer(timer)
    /\ armed' = SetTimeout(armed)
    /\ sinceEvent' = 0
    /\ passTicks' = 0
    /\ outcome' = Pending
    /\ sourceRaised' = <<>>
    /\ passStart' = Len(allItems)
    /\ pc' = "consuming"

\* the pass is left: its clocks stop; sinceEvent keeps the reading at which a
\* stall was declared
LeavePass(stalled) ==
    /\ timer' = 0
    /\ passTicks' = 0
    /\ sinceEvent' = IF stalled THEN sinceEvent ELSE 0

\* await thread.runStreamed(prompt) resolves (lines 469, 580)
StartStream ==
    /\ pc = "start"
    /\ EnterPass
    /\ inFlight' = inFlight \cup {0}
    /\ UNCHANGED <<tool, callerThreadId, maxAttempts, attempt, threadId, result,
                   recovery, report, resumeCalls, abandoned, lateEvents, nEvents,
                   firstResult, allItems, recoveryResult>>
    /\ UNCHANGED evalVars

\* startThread / resumeThread / runStreamed of the handler raises
StartRaises ==
    /\ pc = "start"
    /\ \E m \in RaisedMessages : Raised(m)
    /\ UNCHANGED <<tool, callerThreadId, maxAttempts, cur, timer, armed, sinceEvent,
                   abandoned, lateEvents, nEvents, passTicks, outcome,
                   sourceRaised, allItems, passStart>>
    /\ UNCHANGED evalVars

\* time passes while the race is pending
Tick ==
    /\ pc = "consuming"
    /\ timer < StallTimeout
    /\ timer' = timer + 1
    /\ sinceEvent' = IF sinceEvent < StallTimeout THEN sinceEvent + 1 ELSE sinceEvent
    /\ passTicks' = IF passTicks <= StallTimeout THEN passTicks + 1 ELSE passTicks
    /\ UNCHANGED <<pc, tool, callerThreadId, maxAttempts, cur, armed, attempt,
                   inFlight, threadId, result, recovery, report, resumeCalls,
                   abandoned, lateEvents, nEvents, outcome, sourceRaised,
                   firstResult, allItems, passStart, recoveryResult>>
    /\ UNCHANGED evalVars

\* iterator.next() wins the race with an event: the timer is cleared, the
\* event processed, and the next iteration sets a new timer (lines 146-219)
NextEvent ==
    /\ pc = "consuming"
    /\ nEvents < MaxEvents
    /\ \E e \in ThreadEvents :
          /\ cur' = ProcessEvent(cur, e)
          /\ allItems' = IF e.type = "item.completed"
                         THEN Append(allItems, e.item) ELSE allItems
    /\ armed' = SetTimeout(ClearTimeout(armed))
    /\ timer' = NewTimer(timer)
    /\ sinceEvent' = 0
    /\ nEvents' = nEvents + 1
    /\ UNCHANGED <<pc, tool, callerThreadId, maxAttempts, attempt, inFlight,
                   threadId, result, recovery, report, resumeCalls, abandoned,
                   lateEvents, passTicks, outcome, sourceRaised, firstResult,
                   passStart, recoveryResult>>
    /\ UNCHANGED evalVars

\* iterator.next() wins the race with done: the loop is left (lines 171-173)
EndOfStream ==
    /\ pc = "consuming"
    /\ armed' = ClearTimeout(armed)
    /\ outcome' = Fulfilled(cur)
    /\ PassReturns(cur)
    /\ LeavePass(FALSE)
    /\ UNCHANGED <<tool, callerThreadId, maxAttempts, cur, abandoned, lateEvents,
                   nEvents, sourceRaised, allItems, passStart>>
    /\ UNCHANGED evalVars

\* the timer fires and wins the race (lines 150-152, 164-168): the pass
\* returns stalled, the source's next() stays pending
StallTimeoutFires ==
    /\ pc = "consuming"
    /\ timer = StallTimeout
    /\ armed' = armed - 1
    /\ abandoned' = abandoned + 1
    /\ lateEvents' = 0
    /\ cur' = [cur EXCEPT !.stalled = TRUE]
    /\ outcome' = Fulfilled(cur')
    /\ PassReturns(cur')
    /\ LeavePass(TRUE)
    /\ UNCHANGED <<tool, callerThreadId, maxAttempts, nEvents, sourceRaised,
                   allItems, passStart>>
    /\ UNCHANGED evalVars

\* iterator.next() rejects (line 157): the await throws out of the loop,
\* before clearTimeout
StreamRaises ==
    /\ pc = "consuming"
    /\ \E m \in RaisedMessages :
          /\ sourceRaised' = <<m>>
          /\ outcome' = Rejected(m)
          /\ Raised(m)
    /\ LeavePass(FALSE)
    /\ UNCHANGED <<tool, callerThreadId, maxAttempts, cur, armed, abandoned,
                   lateEvents, nEvents, allItems, passStart>>
    /\ UNCHANGED evalVars

\* await thread.runStreamed(recoveryPrompt) resolves (lines 246-248)
ResumeReturns ==
    /\ pc = "resuming"
    /\ EnterPass
    /\ UNCHANGED <<tool, callerThreadId, maxAttempts, attempt, inFlight, threadId,
                   result, recovery, report, resumeCalls, abandoned, lateEvents,
                   nEvents, firstResult, allItems, recoveryResult>>
    /\ UNCHANGED evalVars

\* resumeThread / runStreamed of attemptRecovery raises (lines 244-246, 257)
ResumeRaises ==
    /\ pc = "resuming"
    /\ \E m \in RaisedMessages : Raised(m)
    /\ UNCHANGED <<tool, callerThreadId, maxAttempts, cur, timer, armed, sinceEvent,
                   abandoned, lateEvents, nEvents, passTicks, outcome,
                   sourceRaised, allItems, passStart>>
    /\ UNCHANGED evalVars

\* the latest abandoned source delivers an event to its pending next(), which
\* is the only call of next() left unanswered on it
LateEvent ==
    /\ abandoned > 0
    /\ lateEvents = 0
    /\ lateEvents' = lateEvents + 1
    /\ \E e \in LateEvents : cur' = OnLateEvent(cur, e)
    /\ UNCHANGED <<pc, tool, callerThreadId, maxAttempts, timer, armed, sinceEvent,
                   abandoned, attempt, inFlight, threadId, result, recovery, report,
                   resumeCalls, nEvents, passTicks, outcome, sourceRaised,
                   firstResult, allItems, passStart, recoveryResult>>
    /\ UNCHANGED evalVars

Next ==
    \/ StartStream
    \/ StartRaises
    \/ Tick
    \/ NextEvent
    \/ EndOfStream
    \/ StallTimeoutFires
    \/ StreamRaises
    \/ ResumeReturns
    \/ ResumeRaises
    \/ LateEvent

Spec == Init /\ [][Next]_vars

\* The same system under the assumptions of a terminating run: time passes
\* and a due timer fires (the event loop runs setTimeout callbacks), and every
\* start / resume call settles, by returning or by raising.  Nothing is
\* assumed of an event source: it may stay silent for ever.
Fairness ==
    WF_vars(\/ Tick
            \/ StallTimeoutFires
            \/ StartStream \/ StartRaises
            \/ ResumeReturns \/ ResumeRaises)

\* a run with any maxRecoveryAttempts argument, or a reply with one given
FairInit ==
    /\ \/ \E a \in ArgMaxRecovery : InitCall("run", a)
       \/ \E a \in ArgMaxRecovery \ {<<>>} : InitCall("reply", a)
    /\ InitEval

FairSpec == FairInit /\ [][Next]_vars /\ Fairness

\* ------------------------------------------------------------------------
\* The Outcome Evaluator on its own: one call of determineResultLevel on
\* arguments drawn from bounded sets
\* ------------------------------------------------------------------------
\* longest item list the evaluator is called on
MaxEvalLen == 2

RECURSIVE SeqsUpTo(_, _)
SeqsUpTo(S, n) ==
    IF n = 0 THEN {<<>>}
    ELSE LET shorter == SeqsUpTo(S, n - 1)
         IN shorter \cup {Append(q, x) : q \in shorter, x \in S}

EvalMessages == {Undefined, MSG_Empty, MSG_Boom, MSG_RequestTimeout, MSG_Aborted,
                 MSG_CapTimeout, MSG_Abort, STR_timeout}

EvalInit ==
    /\ InitCall("run", <<>>)
    /\ evItems \in SeqsUpTo(EvalItems, MaxEvalLen)
    /\ evHasError \in BOOLEAN
    /\ evMessage \in EvalMessages
    /\ evLevel = "-"
    /\ evEvents = <<>>

Evaluate ==
    /\ evLevel = "-"
    /\ evLevel' = determineResultLevel(evItems, evHasError, evMessage)
    /\ UNCHANGED <<evItems, evHasError, evMessage, evEvents>>
    /\ UNCHANGED <<pc, tool, callerThreadId, maxAttempts, cur, timer, armed, sinceEvent,
                   attempt, inFlight, threadId, result, recovery, report, resumeCalls,
                   abandoned, lateEvents, nEvents, passTicks, outcome, sourceRaised,
                   firstResult, allItems, passStart, recoveryResult>>

SpecEval == EvalInit /\ [][Evaluate]_vars

\* ------------------------------------------------------------------------
\* A first pass in one step: the source delivers the events of evEvents, each
\* winning its race, and then ends
\* ------------------------------------------------------------------------
\* longest stream consumed as a whole
MaxStreamLen == 2

\* the loop body applied to each event in turn (lines 144-220)
RECURSIVE ProcessAll(_, _)
ProcessAll(c, es) ==
    IF es = <<>> THEN c ELSE ProcessAll(ProcessEvent(c, es[1]), Tail(es))

\* items of the item.completed events of es, in order
RECURSIVE CompletedItems(_)
CompletedItems(es) ==
    IF es = <<>> THEN <<>>
    ELSE (IF es[1].type = "item.completed" THEN <<es[1].item>> ELSE <<>>)
         \o CompletedItems(Tail(es))

StreamInit ==
    /\ \E t \in {"run", "reply"} : InitCall(t, <<>>)
    /\ evItems = <<>>
    /\ evHasError = FALSE
    /\ evMessage = Undefined
    /\ evLevel = "-"
    /\ evEvents \in SeqsUpTo(ThreadEvents, MaxStreamLen)

\* runStreamed resolves, every event is processed, next() reports done and
\* the handler returns (lines 469-533, 144-222, 286-323)
ConsumeStream ==
    /\ pc = "start"
    /\ cur' = ProcessAll(PassInit, evEvents)
    /\ allItems' = CompletedItems(evEvents)
    /\ nEvents' = Len(evEvents)
    /\ outcome' = Fulfilled(cur')
    /\ PassReturns(cur')
    /\ UNCHANGED <<tool, callerThreadId, maxAttempts, timer, armed, sinceEvent,
                   abandoned, lateEvents, passTicks, sourceRaised, passStart>>
    /\ UNCHANGED evalVars

SpecStream == StreamInit /\ [][ConsumeStream]_vars

\* ------------------------------------------------------------------------
\* Properties
\* ------------------------------------------------------------------------
\* items obtained by the latest pass, as the source delivered them
PassItems == SubSeq(allItems, passStart + 1, Len(allItems))

FirstPassStalled == firstResult # <<>> /\ firstResult[1].stalled

\* C1: whenever the first pass stalls and recovery does not succeed, the final
\* report has Result Level TIMEOUT and needsUserInput = true, whatever items
\* the partial run accumulated.
C1_UnrecoveredStallIsTimeout ==
    (pc = "done" /\ FirstPassStalled /\ ~recovery.recovered)
        => /\ report.kind = "summary"
           /\ report.resultLevel = "TIMEOUT"
           /\ report.needsUserInput = TRUE

\* all attempts failed, and the partial items alone would be classified PASS
C1_Witness ==
    /\ pc = "done"
    /\ FirstPassStalled
    /\ ~recovery.recovered
    /\ recovery.attempts = 2
    /\ \E i \in 1..Len(result[1].items) : result[1].items[i] = ItemMessage
    /\ determineResultLevel(result[1].items, FALSE, Undefined) = "PASS"
    /\ report.resultLevel = "TIMEOUT"
    /\ report.needsUserInput

\* C2: a pass that obtains no event within the inactivity timeout stops
\* consuming and returns stalled = true with exactly the items it accumulated;
\* an event the abandoned source delivers afterwards changes nothing of it.
C2_StallReturnsPartial ==
    (outcome.kind = "fulfilled" /\ outcome.value.stalled)
        => /\ pc # "consuming"
           /\ outcome.value.items = PassItems
           /\ cur = outcome.value
           /\ result # <<>>
           /\ ~recovery.recovered => result = firstResult

\* nothing was delivered before the timeout, and the source delivered later
C2_Witness ==
    /\ pc = "done"
    /\ outcome.kind = "fulfilled"
    /\ outcome.value.stalled
    /\ outcome.value.items = <<>>
    /\ nEvents = 0
    /\ lateEvents > 0
    /\ result[1].items = <<>>

\* C3: a stall is declared only when a full inactivity timeout has elapsed
\* since the most recently obtained event (or since the pass began).
C3_StallOnlyAfterFullTimeout ==
    cur.stalled => sinceEvent >= StallTimeout

\* a pass that has run longer than the timeout, kept alive by its events
C3_Witness ==
    /\ pc = "consuming"
    /\ passTicks > StallTimeout
    /\ nEvents >= 2
    /\ sinceEvent < StallTimeout
    /\ ~cur.stalled

\* C4: Recovery Record.attempts never decreases and never exceeds
\* maxRecoveryAttempts; at most that many resume invocations are issued.
C4_AttemptsBounded ==
    /\ [](/\ recovery.attempts <= maxAttempts
          /\ resumeCalls <= maxAttempts
          /\ resumeCalls = recovery.attempts)
    /\ [][recovery'.attempts >= recovery.attempts]_vars

\* every allowed attempt was made
C4_Witness ==
    /\ pc = "done"
    /\ maxAttempts = 2
    /\ recovery.attempts = 2
    /\ resumeCalls = 2
    /\ ~recovery.recovered

\* C5: the loop stops at the first attempt whose sub-run ends without stalling
\* or raising: recovered = true, attempts = that attempt, no resume after it,
\* recovered stays true, needsUserInput = false and the Result Level is the
\* Outcome Evaluator's on the merged items.
C5_SuccessStopsLoop ==
    /\ [](recovery.recovered =>
            /\ pc = "done"
            /\ outcome.kind = "fulfilled"
            /\ ~outcome.value.stalled
            /\ recovery.attempts = attempt
            /\ recovery.attempts = resumeCalls
            /\ attempt \in 1..maxAttempts
            /\ report.kind = "summary"
            /\ report.needsUserInput = FALSE
            /\ report.resultLevel = determineResultLevel(result[1].items, FALSE, Undefined))
    /\ [][recovery.recovered => (recovery'.recovered /\ resumeCalls' = resumeCalls)]_vars

\* the first attempt stalled, the second delivered a message
C5_Witness ==
    /\ pc = "done"
    /\ recovery.recovered
    /\ recovery.attempts = 2
    /\ abandoned = 2
    /\ PassItems = <<ItemMessage>>
    /\ report.resultLevel = "PASS"
    /\ ~report.needsUserInput

\* C6: recovery attempts never overlap, and none starts before the first pass
\* has returned stalled.
C6_AttemptsSequential ==
    /\ Cardinality(inFlight) <= 1
    /\ \A k \in inFlight : k >= 1 => (FirstPassStalled /\ k = attempt)

\* the second attempt is running
C6_Witness ==
    /\ pc = "consuming"
    /\ inFlight = {2}

\* C7: after a successful recovery the item list is the first pass's items
\* followed by the successful recovery pass's items, each in arrival order.
C7_MergeOrder ==
    recovery.recovered =>
        /\ result[1].items = firstResult[1].items \o PassItems
        /\ report.totalItems = Len(firstResult[1].items) + Len(PassItems)

\* pre-stall [A, B] and recovery [C]
C7_Witness ==
    /\ recovery.recovered
    /\ firstResult[1].items = <<ItemCommand, ItemError>>
    /\ PassItems = <<ItemMessage>>
    /\ result[1].items = <<ItemCommand, ItemError, ItemMessage>>

\* C8 as stated: the final item list is the first pass's items followed by
\* the items of every recovery pass that ran, in attempt order.
C8_AllPassesMerged ==
    (pc = "done" /\ report.kind = "summary") => result[1].items = allItems

\* C8: the final item list is the first pass's items followed by the items of
\* the successful recovery pass only; the items of recovery passes that
\* stalled or raised are not in it.
C8_OnlySuccessfulPassMerged ==
    (pc = "done" /\ report.kind = "summary")
        => /\ result[1].items =
                firstResult[1].items \o (IF recovery.recovered THEN PassItems ELSE <<>>)
           /\ report.totalItems = Len(result[1].items)

\* an attempt that obtained an item failed, a later attempt succeeded
C8_Witness ==
    /\ pc = "done"
    /\ recovery.recovered
    /\ recovery.attempts = 2
    /\ Len(allItems) > Len(result[1].items)

\* the precedence of the Outcome Evaluator, stated from the specification
HasIndicator(m) ==
    m # Undefined /\ (Includes(m, STR_timeout) \/ Includes(m, STR_aborted))
HasMessage(s) == \E i \in 1..Len(s) : s[i].type = "agent_message"
HasFailure(s) ==
    \E i \in 1..Len(s) :
        s[i].type = "error" \/ (s[i].type = "file_change" /\ s[i].status = "failed")

\* C9: with hadError the level is TIMEOUT if the message contains a timeout or
\* abort indicator and ERROR otherwise; without hadError it is PASS whenever an
\* item is a completed message, else FAIL if an item is an error item or a
\* failed file change, else PASS.
C9_Precedence ==
    evLevel # "-" =>
        /\ (evHasError /\ HasIndicator(evMessage)) => evLevel = "TIMEOUT"
        /\ (evHasError /\ ~HasIndicator(evMessage)) => evLevel = "ERROR"
        /\ (~evHasError /\ HasMessage(evItems)) => evLevel = "PASS"
        /\ (~evHasError /\ ~HasMessage(evItems) /\ HasFailure(evItems)) => evLevel = "FAIL"
        /\ (~evHasError /\ ~HasMessage(evItems) /\ ~HasFailure(evItems)) => evLevel = "PASS"

\* a failed file change, then a message: PASS
C9_Witness ==
    /\ evLevel = "PASS"
    /\ ~evHasError
    /\ evItems = <<ItemFileFailed, ItemMessage>>

\* C10 as stated: when obtaining the next event raises, the pass returns a Run
\* Result whose error is the raised error, whose stalled flag is false and
\* whose items are those accumulated before the error.
C10_ErrorCapturedInResult ==
    sourceRaised # <<>> =>
        /\ outcome.kind = "fulfilled"
        /\ outcome.value.error = sourceRaised[1]
        /\ outcome.value.stalled = FALSE
        /\ outcome.value.items = PassItems

\* C10: when obtaining the next event raises, the pass stops consuming and the
\* error propagates out of it; no Run Result is returned and the items of that
\* pass reach no result.  In the first pass the handler reports the error and
\* nothing else; in a recovery pass the attempt counts as failed and the
\* cumulative result stays that of the first pass.
C10_ErrorPropagates ==
    sourceRaised # <<>> =>
        /\ pc # "consuming"
        /\ outcome = Rejected(sourceRaised[1])
        /\ firstResult = <<>> =>
              /\ pc = "done"
              /\ result = <<>>
              /\ report = ErrorReport(sourceRaised[1])
        /\ firstResult # <<>> =>
              /\ ~recovery.recovered
              /\ recovery.lastError # Undefined
              /\ result = firstResult

\* the first pass had accumulated an item when its source raised
C10_Witness ==
    /\ sourceRaised # <<>>
    /\ firstResult = <<>>
    /\ PassItems = <<ItemCommand>>
    /\ cur.items = <<ItemCommand>>
    /\ report.kind = "error"

\* C11: when acquiring the source or the first pass's stream raises, no resume
\* is invoked and no recovery is recorded; the handler reports the error with
\* the level of the Outcome Evaluator under hadError: TIMEOUT when the message
\* contains a timeout or abort indicator, ERROR otherwise.
C11_FirstPassErrorSkipsRecovery ==
    (pc = "done" /\ firstResult = <<>>)
        => /\ report.kind = "error"
           /\ resumeCalls = 0
           /\ recovery = RecoveryInit
           /\ recoveryResult = <<>>
           /\ \E m \in RaisedMessages :
                 /\ report.error = STR_ExecPrefix \o m
                 /\ sourceRaised # <<>> => sourceRaised[1] = m
                 /\ report.resultLevel = IF HasIndicator(m) THEN "TIMEOUT" ELSE "ERROR"

\* acquiring the source raised "request timeout": TIMEOUT without any pass
C11_Witness ==
    /\ pc = "done"
    /\ firstResult = <<>>
    /\ sourceRaised = <<>>
    /\ nEvents = 0
    /\ report.error = STR_ExecPrefix \o MSG_RequestTimeout
    /\ report.resultLevel = "TIMEOUT"

\* C12: an error raised by resume or by a recovery pass's stream is absorbed:
\* the attempt's result carries the raised message and counts as failed, the
\* handler never reports the error, and the loop goes on until every allowed
\* attempt has been made.
C12_RecoveryErrorAbsorbed ==
    [][(/\ firstResult # <<>>
        /\ \/ pc = "consuming" /\ sourceRaised' # <<>>
           \/ pc = "resuming" /\ (pc' = "done" \/ attempt' # attempt))
        => /\ report'.kind # "error"
           /\ \E m \in RaisedMessages :
                 /\ sourceRaised' # sourceRaised => sourceRaised' = <<m>>
                 /\ recoveryResult' # <<>>
                 /\ recoveryResult'[1].error = m
                 /\ recoveryResult'[1].stalled
                 /\ recoveryResult'[1].items = <<>>
           /\ ~recovery'.recovered
           /\ result' = firstResult
           /\ IF attempt < maxAttempts
              THEN /\ pc' = "resuming"
                   /\ attempt' = attempt + 1
                   /\ resumeCalls' = resumeCalls + 1
                   /\ report' = NoReport
              ELSE /\ pc' = "done"
                   /\ recovery'.attempts = maxAttempts
                   /\ report'.kind = "summary"
                   /\ report'.resultLevel = "TIMEOUT"]_vars

\* the first attempt's stream raised "boom", the second attempt is running
C12_Witness ==
    /\ pc = "consuming"
    /\ attempt = 2
    /\ recovery.attempts = 2
    /\ recoveryResult # <<>>
    /\ recoveryResult[1].error = MSG_Boom
    /\ recovery.lastError = MSG_Boom
    /\ abandoned = 1
    /\ armed = 2

\* the fields of the coordinator's report
ReportFields ==
    {"threadId", "content", "totalItems", "commands", "fileChanges", "mcpCalls",
     "usage", "filesModified", "needsUserInput"}

C14_ThreadIdAssignedOnce ==
    [][/\ (pc = "consuming" /\ pc' = "consuming" /\ cur.threadId # Null)
            => cur'.threadId = cur.threadId
       /\ threadId # Null => threadId' = threadId
       /\ (result # <<>> /\ result[1].threadId # Null)
            => result'[1].threadId = result[1].threadId]_vars

\* C15: when the first pass stalls with no thread.started event observed and
\* no identifier supplied by the caller, no resume is invoked, the Recovery
\* Record stays attempted = false with attempts = 0, and the report has
\* Result Level TIMEOUT and needsUserInput = true.
C15_NoIdentifierNoRecovery ==
    (FirstPassStalled /\ firstResult[1].threadId = Null /\ callerThreadId = Null)
        => /\ pc = "done"
           /\ resumeCalls = 0
           /\ recoveryResult = <<>>
           /\ recovery.attempted = FALSE
           /\ recovery.attempts = 0
           /\ recovery.recovered = FALSE
           /\ report.kind = "summary"
           /\ report.recovery = <<>>
           /\ report.resultLevel = "TIMEOUT"
           /\ report.needsUserInput = TRUE

\* a run whose stream delivered a message and then fell silent, with two
\* attempts allowed
C15_Witness ==
    /\ pc = "done"
    /\ tool = "run"
    /\ maxAttempts = 2
    /\ FirstPassStalled
    /\ firstResult[1].threadId = Null
    /\ firstResult[1].items = <<ItemMessage>>
    /\ resumeCalls = 0
    /\ report.resultLevel = "TIMEOUT"

\* C16: the report contains the Recovery Record only if at least one recovery
\* attempt was made; a stalled run with a session identifier and
\* maxRecoveryAttempts = 0 reports none.
C16_RecordOnlyIfAttemptMade ==
    (pc = "done" /\ report.kind = "summary" /\ report.recovery # <<>>)
        => /\ report.recovery[1].attempts >= 1
           /\ resumeCalls >= 1

\* text of the most recently completed message item of s, "" when s has none
LastMessageText(s) ==
    LET idx == {i \in 1..Len(s) : s[i].type = "agent_message"}
    IN IF idx = {} THEN ""
       ELSE s[CHOOSE i \in idx : \A j \in idx : j <= i].text

\* C17: the final text of a run result is always the text of the most
\* recently completed message item among its items, and empty only when they
\* contain no message; this holds after a recovery merge too, where the
\* pre-stall pass produced a message and the recovery pass none.
C17_FinalTextIsLastMessage ==
    /\ cur.finalResponse = LastMessageText(cur.items)
    /\ result # <<>> => result[1].finalResponse = LastMessageText(result[1].items)
    /\ (pc = "done" /\ report.kind = "summary")
          => report.content = LastMessageText(result[1].items)

\* failure reason of an attempt as the claim states it: the raised message
\* when the attempt raised, the still-stalled reason when it stalled
StatedReason(rr) == IF rr.error # Undefined THEN rr.error ELSE STR_StillStalled

\* C18 as stated: while no attempt has succeeded, lastError is the failure
\* reason of the latest failed attempt, the raised message when it raised and
\* the still-stalled reason when it stalled; when all N >= 1 attempts have
\* failed, recovered = false and attempts = N.
C18_LastErrorIsRaisedMessage ==
    (recovery.attempted /\ ~recovery.recovered) =>
        /\ recoveryResult = <<>> => recovery.lastError = Undefined
        /\ recoveryResult # <<>> => recovery.lastError = StatedReason(recoveryResult[1])
        /\ pc = "done" => recovery.attempts = maxAttempts

\* C18: while no attempt has succeeded, lastError is the failure reason of the
\* latest failed attempt: the raised message when it raised with a non-empty
\* message, the still-stalled reason when it stalled or raised with an empty
\* message; each failed attempt overwrites it.  When all N >= 1 attempts have
\* failed, recovered = false and attempts = N.
C18_LastErrorOfLastAttempt ==
    (recovery.attempted /\ ~recovery.recovered) =>
        /\ recoveryResult = <<>> => recovery.lastError = Undefined
        /\ recoveryResult # <<>> =>
              /\ recoveryResult[1].stalled
              /\ sourceRaised # <<>> => recoveryResult[1].error \in RaisedMessages
              /\ recovery.lastError =
                    IF StatedReason(recoveryResult[1]) # <<>>
                    THEN StatedReason(recoveryResult[1])
                    ELSE STR_StillStalled
        /\ pc = "done" =>
              /\ recovery.attempts = maxAttempts
              /\ resumeCalls = maxAttempts
              /\ maxAttempts >= 1 => recoveryResult # <<>>

\* the first attempt stalled, the second raised "request timeout"
C18_Witness ==
    /\ pc = "done"
    /\ recovery.attempts = 2
    /\ ~recovery.recovered
    /\ abandoned = 2
    /\ recoveryResult[1].error = MSG_RequestTimeout
    /\ recovery.lastError = MSG_RequestTimeout

C20_NoTimerLeftArmed ==
    /\ armed <= 1
    /\ pc # "consuming" => armed = 0

\* C21: within a pass the item list is exactly the items of the consumed
\* item.completed events, in arrival order, one item per event and without
\* deduplication; every other event appends nothing and leaves the items as
\* they are.
C21_ItemsAreCompletedEvents ==
    /\ cur.items = PassItems
    /\ Len(cur.items) <= nEvents

\* two equal items were completed, with an event of another type consumed too
C21_Witness ==
    /\ pc = "consuming"
    /\ passStart = 0
    /\ nEvents = 3
    /\ cur.items = <<ItemCommand, ItemCommand>>

\* event sources obtained so far: the first pass's and one per recovery pass
\* entered
SourcesConsumed ==
    (IF pc = "start" \/ (pc = "done" /\ firstResult = <<>> /\ outcome = Pending)
     THEN 0 ELSE 1)
    + (IF pc = "resuming" THEN resumeCalls - 1 ELSE resumeCalls)

\* C22: provided every start / resume call returns or raises and the sources
\* deliver finitely many events, every invocation eventually returns its
\* response, having consumed at most 1 + maxRecoveryAttempts event sources; a
\* source that stays silent for ever does not block it.
C22_Terminates ==
    /\ <>(pc = "done" /\ report # NoReport)
    /\ [](SourcesConsumed <= 1 + maxAttempts)

\* every pass was abandoned on a silent source, and the response was returned
C22_Witness ==
    /\ pc = "done"
    /\ maxAttempts = 2
    /\ nEvents = 1
    /\ abandoned = 3
    /\ SourcesConsumed = 3
    /\ report.kind = "summary"

\* C23: a failed recovery attempt leaves the cumulative Run Result as it was:
\* while no attempt has succeeded, and when every attempt has stalled or
\* raised, the result's items, final text, usage, stalled flag and session
\* identifier are those of the first, stalled pass; only the Recovery Record
\* has changed, and the report is made from that result.
C23_FailedAttemptKeepsResult ==
    (FirstPassStalled /\ ~recovery.recovered) =>
        /\ result # <<>>
        /\ result[1].items = firstResult[1].items
        /\ result[1].finalResponse = firstResult[1].finalResponse
        /\ result[1].usage = firstResult[1].usage
        /\ result[1].stalled = TRUE
        /\ result[1].threadId = firstResult[1].threadId
        /\ result[1].error = Undefined
        /\ pc = "done" =>
              /\ report.content = firstResult[1].finalResponse
              /\ report.totalItems = Len(firstResult[1].items)
              /\ report.usage = firstResult[1].usage
              /\ recovery.attempted => recovery.attempts = maxAttempts

\* the first pass completed a message, the only attempt obtained the usage of
\* its turn and then stalled
C23_Witness ==
    /\ pc = "done"
    /\ recovery.attempted
    /\ ~recovery.recovered
    /\ recovery.attempts = 1
    /\ recoveryResult[1].usage = UsageU1
    /\ recoveryResult[1].error = Undefined
    /\ firstResult[1].finalResponse = "done"
    /\ result[1].usage = <<>>
    /\ report.content = "done"

IsFailureEvent(e) == e.type \in {"turn.failed", "error"}
NotFailureEvent(e) == ~IsFailureEvent(e)

\* C24: turn.failed and error events neither stop consumption nor influence
\* the outcome: the pass ends with what the same stream without them would
\* give, and when the stream had such an event, ended gracefully and completed
\* no item, the report has Result Level PASS and needsUserInput = false.
C24_FailureEventsIgnored ==
    (pc = "done" /\ \E i \in 1..Len(evEvents) : IsFailureEvent(evEvents[i])) =>
        /\ report.kind = "summary"
        /\ cur = ProcessAll(PassInit, SelectSeq(evEvents, NotFailureEvent))
        /\ result = <<cur>>
        /\ ~cur.stalled
        /\ cur.error = Undefined
        /\ report.needsUserInput = FALSE
        /\ report.recovery = <<>>
        /\ CompletedItems(evEvents) = <<>> =>
              /\ report.totalItems = 0
              /\ report.resultLevel = "PASS"

\* a run whose stream failed its turn and then started a thread, and ended
C24_Witness ==
    /\ pc = "done"
    /\ tool = "run"
    /\ evEvents = <<Event("turn.failed", Null, NoItem, <<>>),
                    Event("thread.started", "T2", NoItem, <<>>)>>
    /\ report.threadId = "T2"
    /\ report.resultLevel = "PASS"
    /\ report.needsUserInput = FALSE

====
